---------------------------- MODULE Spec2Model ----------------------------
(***************************************************************************)
(* Model of src/native/http_request_utils.c of aws-crt-java:               *)
(*   - the wire codec for marshalled HTTP requests and header sets,        *)
(*   - the request builder (new request from a blob, apply a blob to an    *)
(*     existing request, marshal a native request),                        *)
(*   - the input stream that adapts a Java HttpRequestBodyStream.          *)
(* Byte strings are sequences of naturals in 0..255.  A byte cursor is the *)
(* sequence of the bytes that remain.                                      *)
(***************************************************************************)
EXTENDS Integers, Sequences, FiniteSets, TLC

VARIABLES
    message,             \* the native aws_http_message handed to apply / marshal
    marshalled_request,  \* the jbyteArray handed to the unmarshalling entry points
    jni_body_stream,     \* the jobject body stream last handed with it (JNULL when absent)
    request,             \* what aws_http_request_new_from_java_http_request returned
    parsed_headers,      \* what aws_http_headers_new_from_java_http_headers returned
    marshaling_buf,      \* the buffer s_marshall_http_request filled
    op,                  \* the entry point that ran last
    result,              \* its result code
    raised_error,        \* the error it raised (NO_ERROR when it raised none)
    added,               \* number of add_header calls it made
    impl,                \* struct aws_http_request_body_stream_impl
    dest,                \* the aws_byte_buf the engine reads into
    out,                 \* the out parameter the last stream operation filled
    trace,               \* JNI and allocator events of the last operation, in order
    sent_final,          \* send_outgoing_body returned true since the last successful seek
    thread_env           \* aws_jni_acquire_thread_env had an env to give to the last operation

vars == <<message, marshalled_request, jni_body_stream, request, parsed_headers,
          marshaling_buf, op, result, raised_error, added, impl, dest, out, trace, sent_final,
          thread_env>>

codecVars == <<message, marshalled_request, jni_body_stream, request, parsed_headers,
               marshaling_buf, op, result, raised_error, added>>

streamVars == <<impl, dest, out, trace, sent_final, thread_env, op, result, raised_error>>

---------------------------------------------------------------------------
(* Bounds of the model.                                                    *)

\* number of well-formed fields after the version in an input blob
MaxFields == 4
\* number of payload bytes of such a field, when it is not empty
MaxData == 1
\* a declared length larger than any input blob
HugeLen == 100
\* headers of a native request that is marshalled
MaxHeaders == 2
\* capacity of the destination buffer of a read
DestCapacity == 2

---------------------------------------------------------------------------
(* Values of the collaborating libraries.                                  *)

\* enum aws_http_version (aws/http/http.h)
AWS_HTTP_VERSION_UNKNOWN == 0
AWS_HTTP_VERSION_1_0 == 1
AWS_HTTP_VERSION_1_1 == 2
AWS_HTTP_VERSION_2 == 3

AWS_OP_SUCCESS == "AWS_OP_SUCCESS"
AWS_OP_ERR == "AWS_OP_ERR"

NO_ERROR == "none"
AWS_ERROR_INVALID_ARGUMENT == "AWS_ERROR_INVALID_ARGUMENT"
AWS_ERROR_OOM == "AWS_ERROR_OOM"
AWS_ERROR_HTTP_INVALID_BODY_STREAM == "AWS_ERROR_HTTP_INVALID_BODY_STREAM"
AWS_ERROR_HTTP_CALLBACK_FAILURE == "AWS_ERROR_HTTP_CALLBACK_FAILURE"

\* a NULL jobject
JNULL == "NULL"

\* a NULL pointer to a native object (message, header set, stream)
NullPtr == [null |-> TRUE]

---------------------------------------------------------------------------
(* Byte cursors.                                                           *)

\* sizeof(int) on the wire: every length and the version take four bytes
WordSize == 4

\* aws_byte_buf_write_be32(buf, (uint32_t)n): the four bytes, most
\* significant first (every n of the model is below 2^31, where the cast
\* to uint32_t changes nothing)
write_be32(n) ==
    << (n \div 16777216) % 256, (n \div 65536) % 256, (n \div 256) % 256, n % 256 >>

\* aws_byte_cursor_read_be32 succeeds iff four bytes remain
can_read_be32(cur) == Len(cur) >= WordSize

\* the value aws_byte_cursor_read_be32 stores.  TLC's integers end at
\* 2^31 - 1: a value of 2^31 or more is kept as 2^31 - 1, which like it is
\* non-zero and beyond the length of every cursor.
read_be32(cur) ==
    IF cur[1] >= 128
    THEN 2147483647
    ELSE cur[1] * 16777216 + cur[2] * 65536 + cur[3] * 256 + cur[4]

\* after_be32 with the cursor moved by three bytes only
after_be32_three_bytes(cur) == SubSeq(cur, WordSize, Len(cur))

\* the cursor after a successful aws_byte_cursor_read_be32
after_be32(cur) == SubSeq(cur, WordSize + 1, Len(cur))

\* aws_byte_cursor_advance(cur, len): when len bytes remain, the first len
\* bytes are returned and the cursor moves past them; otherwise an empty
\* cursor is returned and the cursor stays where it is.
aws_byte_cursor_advance(cur, len) ==
    IF len > Len(cur)
    THEN [out |-> << >>, rest |-> cur]
    ELSE [out |-> SubSeq(cur, 1, len), rest |-> SubSeq(cur, len + 1, Len(cur))]

---------------------------------------------------------------------------
(* Native requests and header sets (the aws-c-http object model).          *)

\* struct aws_http_header
Header(name, value) == [name |-> name, value |-> value]

\* aws_http_message_new_request / aws_http2_message_new_request: an empty
\* request of protocol version 1.1, or of protocol version 2
new_request(version) ==
    [version |-> IF version = AWS_HTTP_VERSION_2 THEN AWS_HTTP_VERSION_2 ELSE AWS_HTTP_VERSION_1_1,
     method |-> << >>, path |-> << >>, headers |-> << >>, body_stream |-> NullPtr]

\* no request (a NULL aws_http_message pointer)
NoRequest == NullPtr

---------------------------------------------------------------------------
(* Unmarshalling.                                                          *)

\* the version field: 0 when fewer than four bytes are there (an error is
\* raised, and the caller goes on with the 0)
s_unmarshal_http_request_to_get_version(request_blob) ==
    IF can_read_be32(request_blob)
    THEN [version |-> read_be32(request_blob), rest |-> after_be32(request_blob)]
    ELSE [version |-> AWS_HTTP_VERSION_UNKNOWN, rest |-> request_blob]

\* the while loop of s_unmarshal_http_request_without_version: name/value
\* pairs until the cursor is empty, each added to the message
RECURSIVE unmarshal_request_headers(_, _)
unmarshal_request_headers(headers, request_blob) ==
    IF Len(request_blob) = 0
    THEN [result |-> AWS_OP_SUCCESS, error |-> NO_ERROR, headers |-> headers]
    ELSE IF ~can_read_be32(request_blob)
    THEN [result |-> AWS_OP_ERR, error |-> AWS_ERROR_INVALID_ARGUMENT, headers |-> headers]
    ELSE LET header_name == aws_byte_cursor_advance(after_be32(request_blob), read_be32(request_blob))
         IN  IF ~can_read_be32(header_name.rest)
             THEN [result |-> AWS_OP_ERR, error |-> AWS_ERROR_INVALID_ARGUMENT, headers |-> headers]
             ELSE LET header_value == aws_byte_cursor_advance(after_be32(header_name.rest),
                                                              read_be32(header_name.rest))
                  IN  unmarshal_request_headers(
                          Append(headers, Header(header_name.out, header_value.out)),
                          header_value.rest)

\* s_unmarshal_http_headers: the same loop on a bare header set
RECURSIVE s_unmarshal_http_headers(_, _)
s_unmarshal_http_headers(headers, request_blob) ==
    IF Len(request_blob) = 0
    THEN [result |-> AWS_OP_SUCCESS, error |-> NO_ERROR, headers |-> headers]
    ELSE IF ~can_read_be32(request_blob)
    THEN [result |-> AWS_OP_ERR, error |-> AWS_ERROR_INVALID_ARGUMENT, headers |-> headers]
    ELSE LET header_name == aws_byte_cursor_advance(after_be32(request_blob), read_be32(request_blob))
         IN  IF ~can_read_be32(header_name.rest)
             THEN [result |-> AWS_OP_ERR, error |-> AWS_ERROR_INVALID_ARGUMENT, headers |-> headers]
             ELSE LET header_value == aws_byte_cursor_advance(after_be32(header_name.rest),
                                                              read_be32(header_name.rest))
                  IN  s_unmarshal_http_headers(
                          Append(headers, Header(header_name.out, header_value.out)),
                          header_value.rest)

\* the HTTP/1 branch: method and path are read and set on the message
\* (aws_http_message_set_request_method and _path are taken to succeed)
unmarshal_method_and_path(msg, request_blob) ==
    IF ~can_read_be32(request_blob)
    THEN [result |-> AWS_OP_ERR, error |-> AWS_ERROR_INVALID_ARGUMENT, message |-> msg, rest |-> request_blob]
    ELSE LET method == aws_byte_cursor_advance(after_be32(request_blob), read_be32(request_blob))
             m1 == [msg EXCEPT !.method = method.out]
         IN  IF ~can_read_be32(method.rest)
             THEN [result |-> AWS_OP_ERR, error |-> AWS_ERROR_INVALID_ARGUMENT, message |-> m1, rest |-> method.rest]
             ELSE LET path == aws_byte_cursor_advance(after_be32(method.rest), read_be32(method.rest))
                  IN  [result |-> AWS_OP_SUCCESS, error |-> NO_ERROR,
                       message |-> [m1 EXCEPT !.path = path.out], rest |-> path.rest]

\* unmarshal_empty_method_and_path with the two fields skipped, whatever
\* their lengths
unmarshal_empty_method_and_path_unchecked(msg, request_blob) ==
    [unmarshal_method_and_path(msg, request_blob) EXCEPT !.message = msg]

\* the HTTP/2 branch: two length fields are read, and both must be zero
unmarshal_empty_method_and_path(msg, request_blob) ==
    IF ~can_read_be32(request_blob) \/ read_be32(request_blob) # 0
    THEN [result |-> AWS_OP_ERR, error |-> AWS_ERROR_INVALID_ARGUMENT, message |-> msg, rest |-> request_blob]
    ELSE LET c1 == after_be32(request_blob)
         IN  IF ~can_read_be32(c1) \/ read_be32(c1) # 0
             THEN [result |-> AWS_OP_ERR, error |-> AWS_ERROR_INVALID_ARGUMENT, message |-> msg, rest |-> c1]
             ELSE [result |-> AWS_OP_SUCCESS, error |-> NO_ERROR, message |-> msg, rest |-> after_be32(c1)]

\* s_unmarshal_http_request_without_version: the message as the function
\* leaves it, its result, and the number of headers it added
s_unmarshal_http_request_without_version(msg, request_blob) ==
    LET first == IF msg.version # AWS_HTTP_VERSION_2
                 THEN unmarshal_method_and_path(msg, request_blob)
                 ELSE unmarshal_empty_method_and_path(msg, request_blob)
    IN  IF first.result # AWS_OP_SUCCESS
        THEN [result |-> first.result, error |-> first.error, message |-> first.message, added |-> 0]
        ELSE LET loop == unmarshal_request_headers(first.message.headers, first.rest)
             IN  [result |-> loop.result, error |-> loop.error,
                  message |-> [first.message EXCEPT !.headers = loop.headers],
                  added |-> Len(loop.headers) - Len(first.message.headers)]

---------------------------------------------------------------------------
(* Marshalling.                                                            *)

\* s_marshal_http_header_to_buffer, once the reservation succeeded
s_marshal_http_header_to_buffer(buf, name, value) ==
    buf \o write_be32(Len(name)) \o name \o write_be32(Len(value)) \o value

\* the header loop of s_marshall_http_request, from header i on
RECURSIVE marshal_headers_from(_, _, _)
marshal_headers_from(buf, headers, i) ==
    IF i > Len(headers)
    THEN buf
    ELSE marshal_headers_from(
             s_marshal_http_header_to_buffer(buf, headers[i].name, headers[i].value), headers, i + 1)

\* s_marshall_http_request, once every reservation succeeded: the version,
\* the method and the path as the message reports them, then the headers
s_marshall_http_request(msg, request_buf) ==
    marshal_headers_from(
        request_buf \o write_be32(msg.version)
                    \o write_be32(Len(msg.method)) \o msg.method
                    \o write_be32(Len(msg.path)) \o msg.path,
        msg.headers, 1)

---------------------------------------------------------------------------
(* What an operation does to the JVM and to the allocator, as the events   *)
(* it leaves in the trace.                                                 *)

\* acquire_failed with the test of the env left out
acquire_failed_never(env_ok) == FALSE

\* the test every operation makes right after aws_jni_acquire_thread_env:
\* env == NULL
acquire_failed(env_ok) == ~env_ok

\* CallBooleanMethod of a method of the Java body stream: it throws, or it
\* returns true or false
CallBooleanMethod(method, returns, throws) ==
    <<method>> \o (IF throws THEN <<"exception">>
                   ELSE IF returns THEN <<"returned_true">> ELSE <<"returned_false">>)

\* CallLongMethod of a method of the Java body stream: it throws, or it
\* returns a number
CallLongMethod(method, throws) ==
    <<method>> \o (IF throws THEN <<"exception">> ELSE <<"returned">>)

\* aws_jni_check_and_clear_exception with the exception left pending
check_exception_without_clearing(throws) == << >>

\* aws_jni_check_and_clear_exception: a pending exception is cleared
aws_jni_check_and_clear_exception(throws) ==
    IF throws THEN <<"exception_cleared">> ELSE << >>

\* aws_jni_release_thread_env left out
release_thread_env_skipped == << >>

\* aws_jni_release_thread_env
aws_jni_release_thread_env == <<"release">>

\* s_aws_input_stream_destroy, which runs when the last reference to the
\* stream is released: without an env it returns at once; with one, the
\* global reference to the Java body (if there is one) is deleted, the env
\* is released and the memory of the stream is released
s_aws_input_stream_destroy(http_request_body_stream, env_ok) ==
    IF acquire_failed(env_ok)
    THEN <<"acquire_failed">>
    ELSE <<"acquire">>
         \o (IF http_request_body_stream # JNULL THEN <<"delete_global_ref">> ELSE << >>)
         \o aws_jni_release_thread_env
         \o <<"mem_release">>

\* aws_input_stream_release: one reference less; the events of
\* s_aws_input_stream_destroy when it was the last one
aws_input_stream_release_events(stream, env_ok) ==
    IF stream # NullPtr /\ stream.ref_count = 1
    THEN s_aws_input_stream_destroy(stream.http_request_body_stream, env_ok)
    ELSE << >>

---------------------------------------------------------------------------
(* The body stream as the request builder sees it.                         *)

\* aws_input_stream_new_from_java_http_request_body_stream with body_done
\* left false when there is no Java body
new_body_stream_never_done(http_request_body_stream, global_ref_ok) ==
    IF http_request_body_stream # JNULL /\ ~global_ref_ok
    THEN NullPtr
    ELSE [http_request_body_stream |-> http_request_body_stream,
          body_done |-> FALSE, is_valid |-> TRUE, ref_count |-> 1]

\* aws_input_stream_new_from_java_http_request_body_stream: the new stream
\* with its one reference, or NULL when NewGlobalRef gave no reference
aws_input_stream_new_from_java_http_request_body_stream(http_request_body_stream, global_ref_ok) ==
    IF http_request_body_stream # JNULL
    THEN IF global_ref_ok
         THEN [http_request_body_stream |-> http_request_body_stream,
               body_done |-> FALSE, is_valid |-> TRUE, ref_count |-> 1]
         ELSE NullPtr
    ELSE [http_request_body_stream |-> JNULL, body_done |-> TRUE, is_valid |-> TRUE, ref_count |-> 1]

\* set_body_stream_and_release with the release of the caller's reference
\* left out
set_body_stream_without_release(msg, body_stream) ==
    IF body_stream = NullPtr
    THEN [msg EXCEPT !.body_stream = NullPtr]
    ELSE [msg EXCEPT !.body_stream = [body_stream EXCEPT !.ref_count = body_stream.ref_count + 1]]

\* aws_http_message_set_body_stream followed by aws_input_stream_release of
\* the caller's reference: the message holds the stream (or NULL) it was given
set_body_stream_and_release(msg, body_stream) ==
    IF body_stream = NullPtr
    THEN [msg EXCEPT !.body_stream = NullPtr]
    ELSE [msg EXCEPT !.body_stream = [body_stream EXCEPT !.ref_count = (body_stream.ref_count + 1) - 1]]

\* the events of aws_input_stream_new_from_java_http_request_body_stream:
\* the stream is allocated; with a Java body a global reference to it is
\* made, and when there is none to be had the stream is released again
\* (on_error), which destroys it
new_body_stream_events(http_request_body_stream, global_ref_ok, env_ok) ==
    <<"mem_calloc">>
    \o (IF http_request_body_stream = JNULL
        THEN << >>
        ELSE IF global_ref_ok
        THEN <<"new_global_ref">>
        ELSE <<"new_global_ref_failed">> \o s_aws_input_stream_destroy(JNULL, env_ok))

\* the events of aws_http_message_set_body_stream: the stream the message
\* held before is released
set_body_stream_events(msg, env_ok) ==
    aws_input_stream_release_events(msg.body_stream, env_ok)

---------------------------------------------------------------------------
(* Inputs.                                                                 *)

RECURSIVE SeqsUpTo(_, _)
\* all sequences over S of length at most n
SeqsUpTo(S, n) ==
    IF n = 0 THEN {<< >>}
    ELSE LET shorter == SeqsUpTo(S, n - 1)
         IN  shorter \cup {Append(q, x) : q \in {r \in shorter : Len(r) = n - 1}, x \in S}

\* a well-formed length-prefixed field: the length, then that many bytes
LP(bytes) == write_be32(Len(bytes)) \o bytes

\* the well-formed fields of the input blobs: the empty field, and a field
\* of MaxData bytes
BlobFields == {LP(<< >>), LP([i \in 1 .. MaxData |-> 255])}

\* what follows the well-formed fields of an input blob: nothing; a length
\* field cut short; a length of 1 with no byte left; a length of 5 with 3
\* bytes left; a length beyond the blob with a zero length field after it
BlobTails ==
    { << >>,
      <<0, 0, 0>>,
      write_be32(1),
      write_be32(5) \o <<255, 255, 255>>,
      write_be32(HugeLen) \o write_be32(0) }

RECURSIVE Flatten(_)
Flatten(seqs) == IF seqs = << >> THEN << >> ELSE Head(seqs) \o Flatten(Tail(seqs))

\* the byte arrays a caller may hand in: a version word, well-formed
\* fields, and a tail
InputBlobs ==
    {write_be32(v) \o Flatten(fs) \o tail :
        v \in AWS_HTTP_VERSION_UNKNOWN .. AWS_HTTP_VERSION_2,
        fs \in SeqsUpTo(BlobFields, MaxFields),
        tail \in BlobTails}
    \cup {<< >>, <<0, 0, 2>>}

\* a body stream a request already owns
OldStream == [http_request_body_stream |-> "old_body", body_done |-> FALSE, is_valid |-> TRUE, ref_count |-> 1]

\* the native requests changes are applied to: version 1.1 or 2, with a
\* method, a path and a header of their own
ExistingMessages ==
    {[version |-> v, method |-> <<77>>, path |-> <<80>>,
      headers |-> <<Header(<<79>>, <<86>>)>>, body_stream |-> b] :
        v \in {AWS_HTTP_VERSION_1_1, AWS_HTTP_VERSION_2}, b \in {OldStream}}

\* method and path the native requests that are marshalled report (the
\* getters are taken to succeed, as the AWS_FATAL_ASSERTs demand; an HTTP/2
\* message reports its :method and :path): neither; "GET" and "/a"; a
\* method of bytes that are no text; a path alone
MethodsAndPaths ==
    { <<<< >>, << >>>>,
      <<<<71, 69, 84>>, <<47, 97>>>>,
      <<<<0, 255>>, << >>>>,
      <<<< >>, <<47>>>> }

\* header names and values of these requests: "", "X", and bytes that are no text
HeaderStrings == {<< >>, <<88>>, <<255, 0>>}

\* the native requests that are marshalled
NativeRequests ==
    {[version |-> v, method |-> mp[1], path |-> mp[2], headers |-> h, body_stream |-> NullPtr] :
        v \in {AWS_HTTP_VERSION_1_1, AWS_HTTP_VERSION_2},
        mp \in MethodsAndPaths,
        h \in SeqsUpTo({Header(n, val) : n \in HeaderStrings, val \in HeaderStrings}, MaxHeaders)}

\* the jobject body streams a caller may hand in
BodyStreamArgs == {JNULL, "java_body"}

---------------------------------------------------------------------------
(* The request builder.                                                    *)

\* clear_headers with the call of aws_http_headers_clear left out
clear_headers_kept(msg) == msg

\* aws_http_headers_clear on the headers of the message
clear_headers(msg) == [msg EXCEPT !.headers = << >>]

\* version_differs with the comparison left out
version_differs_never(version, msg) == FALSE

\* the test both unmarshalling entry points make on the version they read
version_differs(version, msg) == version # msg.version

\* aws_apply_java_http_request_changes_to_native_request up to the test of
\* the result: the headers are cleared, the version is compared, the rest
\* is unmarshalled into the message
apply_unmarshal(msg, blob) ==
    LET cleared == clear_headers(msg)
        got == s_unmarshal_http_request_to_get_version(blob)
    IN  IF version_differs(got.version, cleared)
        THEN [result |-> AWS_OP_ERR, error |-> AWS_ERROR_INVALID_ARGUMENT, message |-> cleared, added |-> 0]
        ELSE s_unmarshal_http_request_without_version(cleared, got.rest)

\* the rest of it: an error is returned as it is; otherwise, with a body
\* stream argument, the stream that could be made (NULL included) is set
apply_body_stream(un, body_stream_arg, global_ref_ok) ==
    IF un.result # AWS_OP_SUCCESS
    THEN un
    ELSE IF body_stream_arg # JNULL
    THEN [un EXCEPT !.message =
             set_body_stream_and_release(un.message,
                 aws_input_stream_new_from_java_http_request_body_stream(body_stream_arg, global_ref_ok))]
    ELSE un

\* aws_http_request_new_from_java_http_request up to the test of the
\* result: a request of the version read is made, the version is compared,
\* the rest is unmarshalled into the request
new_unmarshal(blob) ==
    LET got == s_unmarshal_http_request_to_get_version(blob)
        fresh == new_request(got.version)
    IN  IF version_differs(got.version, fresh)
        THEN [result |-> AWS_OP_ERR, error |-> AWS_ERROR_INVALID_ARGUMENT, message |-> fresh, added |-> 0]
        ELSE s_unmarshal_http_request_without_version(fresh, got.rest)

\* the rest of it: the request returned (NULL after on_error), the error
\* raised and the number of headers added
new_body_stream(un, body_stream_arg, global_ref_ok) ==
    IF un.result # AWS_OP_SUCCESS
    THEN [request |-> NoRequest, error |-> un.error, added |-> un.added]
    ELSE IF body_stream_arg # JNULL
    THEN LET body_stream == aws_input_stream_new_from_java_http_request_body_stream(
                                body_stream_arg, global_ref_ok)
         IN  IF body_stream = NullPtr
             THEN [request |-> NoRequest, error |-> NO_ERROR, added |-> un.added]
             ELSE [request |-> set_body_stream_and_release(un.message, body_stream),
                   error |-> NO_ERROR, added |-> un.added]
    ELSE [request |-> un.message, error |-> NO_ERROR, added |-> un.added]

\* the outcomes of NewGlobalRef that matter for a body stream argument
GlobalRefOutcomes(body_stream_arg) == IF body_stream_arg = JNULL THEN {TRUE} ELSE BOOLEAN

\* the events of aws_apply_java_http_request_changes_to_native_request
apply_events(msg, un, body_stream_arg, global_ref_ok, env_ok) ==
    IF un.result # AWS_OP_SUCCESS \/ body_stream_arg = JNULL
    THEN << >>
    ELSE new_body_stream_events(body_stream_arg, global_ref_ok, env_ok)
         \o set_body_stream_events(msg, env_ok)

\* the events of aws_http_request_new_from_java_http_request
new_events(un, body_stream_arg, global_ref_ok, env_ok) ==
    <<"message_new">>
    \o (IF un.result # AWS_OP_SUCCESS
        THEN <<"message_destroy">>
        ELSE IF body_stream_arg = JNULL
        THEN << >>
        ELSE new_body_stream_events(body_stream_arg, global_ref_ok, env_ok)
             \o (IF global_ref_ok THEN << >> ELSE <<"message_destroy">>))

\* an env was asked for
AcquireTried(events) ==
    \E i \in 1 .. Len(events) : events[i] \in {"acquire", "acquire_failed"}

\* the outcomes of aws_jni_acquire_thread_env that matter for a call with
\* these events when there is an env
EnvOutcomes(events) == IF AcquireTried(events) THEN BOOLEAN ELSE {TRUE}

aws_apply_java_http_request_changes_to_native_request ==
    LET un == apply_unmarshal(message, marshalled_request)
    IN  \E body_stream_arg \in BodyStreamArgs :
        \E global_ref_ok \in GlobalRefOutcomes(body_stream_arg) :
        \E env_ok \in EnvOutcomes(apply_events(message, un, body_stream_arg, global_ref_ok, TRUE)) :
            LET r == apply_body_stream(un, body_stream_arg, global_ref_ok)
                events == apply_events(message, un, body_stream_arg, global_ref_ok, env_ok)
            IN  /\ message' = r.message
                /\ jni_body_stream' = body_stream_arg
                /\ op' = "apply"
                /\ result' = r.result
                /\ raised_error' = r.error
                /\ added' = r.added
                /\ trace' = events
                /\ thread_env' = env_ok
                /\ UNCHANGED <<marshalled_request, request, parsed_headers,
                               marshaling_buf, impl, dest, out, sent_final>>

aws_http_request_new_from_java_http_request ==
    LET un == new_unmarshal(marshalled_request)
    IN  \E body_stream_arg \in BodyStreamArgs :
        \E global_ref_ok \in GlobalRefOutcomes(body_stream_arg) :
        \E env_ok \in EnvOutcomes(new_events(un, body_stream_arg, global_ref_ok, TRUE)) :
            LET r == new_body_stream(un, body_stream_arg, global_ref_ok)
                events == new_events(un, body_stream_arg, global_ref_ok, env_ok)
            IN  /\ request' = r.request
                /\ jni_body_stream' = body_stream_arg
                /\ op' = "new"
                /\ result' = IF r.request = NoRequest THEN AWS_OP_ERR ELSE AWS_OP_SUCCESS
                /\ raised_error' = r.error
                /\ added' = r.added
                /\ trace' = events
                /\ thread_env' = env_ok
                /\ UNCHANGED <<message, marshalled_request, parsed_headers,
                               marshaling_buf, impl, dest, out, sent_final>>

\* aws_http_headers_new_from_java_http_headers: the header set, or NULL
\* when it could not be allocated or the blob is rejected
aws_http_headers_new_from_java_http_headers ==
    LET un == s_unmarshal_http_headers(<< >>, marshalled_request)
    IN  \E alloc_ok \in BOOLEAN :
            /\ op' = "headers"
            /\ IF ~alloc_ok
               THEN /\ parsed_headers' = NullPtr
                    /\ result' = AWS_OP_ERR
                    /\ raised_error' = AWS_ERROR_OOM
                    /\ added' = 0
               ELSE /\ parsed_headers' = IF un.result = AWS_OP_SUCCESS THEN [headers |-> un.headers] ELSE NullPtr
                    /\ result' = un.result
                    /\ raised_error' = un.error
                    /\ added' = Len(un.headers)
            /\ UNCHANGED <<message, marshalled_request, jni_body_stream, request,
                           marshaling_buf, impl, dest, out, trace, sent_final, thread_env>>

\* aws_java_http_request_from_native: the blob the Java HttpRequest is
\* built from; nothing when a reservation fails or NewObject throws
aws_java_http_request_from_native ==
    \E outcome \in {"ok", "oom", "exception"} :
        /\ op' = "marshal"
        /\ marshaling_buf' = IF outcome = "ok" THEN s_marshall_http_request(message, << >>) ELSE << >>
        /\ result' = IF outcome = "ok" THEN AWS_OP_SUCCESS ELSE AWS_OP_ERR
        /\ raised_error' = CASE outcome = "ok" -> NO_ERROR
                           [] outcome = "oom" -> AWS_ERROR_OOM
                           [] OTHER -> AWS_ERROR_HTTP_CALLBACK_FAILURE
        /\ added' = 0
        /\ UNCHANGED <<message, marshalled_request, jni_body_stream, request, parsed_headers,
                       impl, dest, out, trace, sent_final, thread_env>>

\* the Java side hands the blob of the marshalled request back to the
\* unmarshalling entry points
JavaHandsBlobBack ==
    /\ op = "marshal"
    /\ result = AWS_OP_SUCCESS
    /\ marshalled_request' = marshaling_buf
    /\ op' = "handback"
    /\ UNCHANGED <<message, jni_body_stream, request, parsed_headers, marshaling_buf,
                   result, raised_error, added, impl, dest, out, trace, sent_final, thread_env>>

---------------------------------------------------------------------------
(* Specifications of the codec and the builder.                            *)

\* the stream variables while the codec runs
IdleStream ==
    /\ impl = NullPtr
    /\ dest = [len |-> 0, capacity |-> DestCapacity]
    /\ out = NullPtr
    /\ trace = << >>
    /\ sent_final = FALSE
    /\ thread_env = TRUE

\* the entry points are called on an arbitrary blob and an existing message
InitDecode ==
    /\ message \in ExistingMessages
    /\ marshalled_request \in InputBlobs
    /\ jni_body_stream = JNULL
    /\ request = NoRequest
    /\ parsed_headers = NullPtr
    /\ marshaling_buf = << >>
    /\ op = "none"
    /\ result = AWS_OP_SUCCESS
    /\ raised_error = NO_ERROR
    /\ added = 0
    /\ IdleStream

NextDecode ==
    \/ aws_apply_java_http_request_changes_to_native_request
    \/ aws_http_request_new_from_java_http_request
    \/ aws_http_headers_new_from_java_http_headers

SpecDecode == InitDecode /\ [][NextDecode]_vars

\* a native request is marshalled and the blob is unmarshalled again
InitMarshal ==
    /\ message \in NativeRequests
    /\ marshalled_request = << >>
    /\ jni_body_stream = JNULL
    /\ request = NoRequest
    /\ parsed_headers = NullPtr
    /\ marshaling_buf = << >>
    /\ op = "none"
    /\ result = AWS_OP_SUCCESS
    /\ raised_error = NO_ERROR
    /\ added = 0
    /\ IdleStream

NextMarshal ==
    \/ aws_java_http_request_from_native
    \/ JavaHandsBlobBack
    \/ aws_http_request_new_from_java_http_request

SpecMarshal == InitMarshal /\ [][NextMarshal]_vars

---------------------------------------------------------------------------
(* The lifetime of the body streams the builder attaches.                  *)

\* a body stream of a request of which the engine holds a reference too
SharedStream == [OldStream EXCEPT !.ref_count = 2]

\* a body stream without a Java body
BodylessStream == aws_input_stream_new_from_java_http_request_body_stream(JNULL, TRUE)

\* the native requests changes are applied to, by their body stream: none,
\* one of their own, one they share, one without a Java body
OwningMessages ==
    {[version |-> v, method |-> <<77>>, path |-> <<80>>,
      headers |-> <<Header(<<79>>, <<86>>)>>, body_stream |-> b] :
        v \in {AWS_HTTP_VERSION_1_1, AWS_HTTP_VERSION_2},
        b \in {NullPtr, OldStream, SharedStream, BodylessStream}}

\* the blobs they are given: "G /" as HTTP/1.1 and an empty HTTP/2 request,
\* each without a header and with the header "X: ", and an HTTP/1.1 blob
\* that ends inside the length of the method
FewBlobs ==
    {write_be32(v) \o mp \o h :
        v \in {AWS_HTTP_VERSION_1_1, AWS_HTTP_VERSION_2},
        mp \in {LP(<<71>>) \o LP(<<47>>), LP(<< >>) \o LP(<< >>)},
        h \in {<< >>, LP(<<88>>) \o LP(<< >>)}}
    \cup {write_be32(AWS_HTTP_VERSION_1_1) \o <<0, 0, 0>>}

\* aws_http_message_destroy of the request that
\* aws_http_request_new_from_java_http_request returned: the request
\* releases its body stream
aws_http_message_destroy ==
    \E env_ok \in EnvOutcomes(aws_input_stream_release_events(
                                  IF request = NoRequest THEN NullPtr ELSE request.body_stream, TRUE)) :
        /\ request # NoRequest
        /\ request' = NoRequest
        /\ op' = "message_destroy"
        /\ trace' = <<"message_destroy">>
                    \o aws_input_stream_release_events(request.body_stream, env_ok)
        /\ thread_env' = env_ok
        /\ result' = AWS_OP_SUCCESS
        /\ raised_error' = NO_ERROR
        /\ added' = 0
        /\ UNCHANGED <<message, marshalled_request, jni_body_stream, parsed_headers,
                       marshaling_buf, impl, dest, out, sent_final>>

InitLifetime ==
    /\ message \in OwningMessages
    /\ marshalled_request \in FewBlobs
    /\ jni_body_stream = JNULL
    /\ request = NoRequest
    /\ parsed_headers = NullPtr
    /\ marshaling_buf = << >>
    /\ op = "none"
    /\ result = AWS_OP_SUCCESS
    /\ raised_error = NO_ERROR
    /\ added = 0
    /\ IdleStream

NextLifetime ==
    \/ aws_apply_java_http_request_changes_to_native_request
    \/ aws_http_request_new_from_java_http_request
    \/ aws_http_message_destroy

SpecLifetime == InitLifetime /\ [][NextLifetime]_vars

---------------------------------------------------------------------------
(* The body stream: the aws_input_stream vtable over a Java                *)
(* HttpRequestBodyStream.  The engine calls one operation at a time.       *)

\* enum aws_stream_seek_basis
AWS_SSB_BEGIN == "AWS_SSB_BEGIN"
AWS_SSB_END == "AWS_SSB_END"
SeekBases == {AWS_SSB_BEGIN, AWS_SSB_END}

\* the offsets the engine seeks to
SeekOffsets == {-1, 0, 1}

\* the lengths getLength may report
BodyLengths == {-1, 0, 7}

\* seek_supported with the test of the offset left out
seek_supported_any_offset(offset, basis) == ~(basis # AWS_SSB_BEGIN)

\* the only seek a stream with a Java body supports
seek_supported(offset, basis) == ~(basis # AWS_SSB_BEGIN \/ offset # 0)

\* read_is_done with the test of body_done left out
read_is_done_never(i) == FALSE

\* the test that makes a read return at once: the body is done
read_is_done(i) == i.body_done

\* a JNI call of a method of the Java body stream: what it returns unless
\* it throws, and whether it throws (what it returns is then undefined)
Call(returns, throws) == [returns |-> returns, throws |-> throws]

\* references to the stream that may be held at a time
MaxRefs == 2

\* somebody holds a reference to the stream
stream_in_use == impl # NullPtr /\ impl.ref_count > 0

\* reset_position_failed with the returned value ignored
reset_position_failed_on_throw_only(call) == call.throws

\* what makes a seek fail after reset_position was called: it returned
\* false, or it threw
reset_position_failed(call) == ~call.returns \/ call.throws

s_aws_input_stream_seek ==
    \E offset \in SeekOffsets, basis \in SeekBases, env_ok \in BOOLEAN,
       call \in {Call(r, t) : r \in BOOLEAN, t \in BOOLEAN} :
        /\ stream_in_use
        /\ op' = "seek"
        /\ out' = [offset |-> offset, basis |-> basis]
        /\ thread_env' = env_ok
        /\ UNCHANGED <<dest>>
        /\ IF ~impl.is_valid
           THEN /\ result' = AWS_OP_ERR
                /\ raised_error' = AWS_ERROR_HTTP_INVALID_BODY_STREAM
                /\ trace' = << >>
                /\ UNCHANGED <<impl, sent_final>>
           ELSE IF impl.http_request_body_stream # JNULL /\ ~seek_supported(offset, basis)
           THEN /\ result' = AWS_OP_ERR
                /\ raised_error' = NO_ERROR
                /\ trace' = << >>
                /\ UNCHANGED <<impl, sent_final>>
           ELSE IF impl.http_request_body_stream # JNULL /\ acquire_failed(env_ok)
           THEN /\ result' = AWS_OP_ERR
                /\ raised_error' = NO_ERROR
                /\ trace' = <<"acquire_failed">>
                /\ UNCHANGED <<impl, sent_final>>
           ELSE LET failed == /\ impl.http_request_body_stream # JNULL
                              /\ reset_position_failed(call)
                IN  /\ result' = IF failed THEN AWS_OP_ERR ELSE AWS_OP_SUCCESS
                    /\ raised_error' = IF failed THEN AWS_ERROR_HTTP_CALLBACK_FAILURE ELSE NO_ERROR
                    /\ trace' = IF impl.http_request_body_stream = JNULL
                                THEN << >>
                                ELSE <<"acquire">>
                                     \o CallBooleanMethod("reset_position", call.returns, call.throws)
                                     \o aws_jni_check_and_clear_exception(call.throws)
                                     \o aws_jni_release_thread_env
                    /\ impl' = IF failed THEN impl ELSE [impl EXCEPT !.body_done = FALSE]
                    /\ sent_final' = IF failed THEN sent_final ELSE FALSE
        /\ UNCHANGED <<message, marshalled_request, jni_body_stream, request, parsed_headers,
                       marshaling_buf, added>>

\* out_remaining with the bytes already in the buffer not subtracted
out_remaining_whole_capacity(d) == d.capacity

\* the writable bytes of the destination buffer, which the direct byte
\* buffer given to send_outgoing_body wraps
out_remaining(d) == d.capacity - d.len

\* the destination buffer after send_outgoing_body: the position of the
\* direct byte buffer is added to its length unless the call threw
dest_after_read(d, throws, position) ==
    IF throws THEN d ELSE [d EXCEPT !.len = d.len + position]

\* position is where send_outgoing_body left the direct byte buffer, also
\* when it threw after writing
s_aws_input_stream_read ==
    \E env_ok \in BOOLEAN, returns \in BOOLEAN, throws \in BOOLEAN,
       position \in 0 .. out_remaining(dest) :
        /\ stream_in_use
        /\ op' = "read"
        /\ thread_env' = env_ok
        /\ IF ~impl.is_valid
           THEN /\ result' = AWS_OP_ERR
                /\ raised_error' = AWS_ERROR_HTTP_INVALID_BODY_STREAM
                /\ trace' = << >>
                /\ out' = NullPtr
                /\ UNCHANGED <<impl, dest, sent_final>>
           ELSE IF impl.http_request_body_stream = JNULL
           THEN /\ impl' = [impl EXCEPT !.body_done = TRUE]
                /\ result' = AWS_OP_SUCCESS
                /\ raised_error' = NO_ERROR
                /\ trace' = << >>
                /\ out' = NullPtr
                /\ UNCHANGED <<dest, sent_final>>
           ELSE IF read_is_done(impl)
           THEN /\ result' = AWS_OP_SUCCESS
                /\ raised_error' = NO_ERROR
                /\ trace' = << >>
                /\ out' = NullPtr
                /\ UNCHANGED <<impl, dest, sent_final>>
           ELSE IF acquire_failed(env_ok)
           THEN /\ result' = AWS_OP_ERR
                /\ raised_error' = NO_ERROR
                /\ trace' = <<"acquire_failed">>
                /\ out' = NullPtr
                /\ UNCHANGED <<impl, dest, sent_final>>
           ELSE /\ impl' = [impl EXCEPT !.body_done = returns]
                /\ sent_final' = IF throws THEN sent_final ELSE returns
                /\ result' = IF throws THEN AWS_OP_ERR ELSE AWS_OP_SUCCESS
                /\ raised_error' = IF throws THEN AWS_ERROR_HTTP_CALLBACK_FAILURE ELSE NO_ERROR
                /\ out' = [out_remaining |-> out_remaining(dest), position |-> position]
                /\ dest' = dest_after_read(dest, throws, position)
                /\ trace' = <<"acquire">>
                            \o CallBooleanMethod("send_outgoing_body", returns, throws)
                            \o aws_jni_check_and_clear_exception(throws)
                            \o aws_jni_release_thread_env
        /\ UNCHANGED <<message, marshalled_request, jni_body_stream, request, parsed_headers,
                       marshaling_buf, added>>

s_aws_input_stream_get_status ==
    /\ stream_in_use
    /\ op' = "get_status"
    /\ out' = [is_end_of_stream |-> impl.body_done, is_valid |-> impl.is_valid]
    /\ result' = AWS_OP_SUCCESS
    /\ raised_error' = NO_ERROR
    /\ trace' = << >>
    /\ UNCHANGED <<impl, dest, sent_final, thread_env>>
    /\ UNCHANGED <<message, marshalled_request, jni_body_stream, request, parsed_headers,
                   marshaling_buf, added>>

s_aws_input_stream_get_length ==
    \E env_ok \in BOOLEAN, length \in BodyLengths, throws \in BOOLEAN :
        /\ stream_in_use
        /\ op' = "get_length"
        /\ thread_env' = env_ok
        /\ UNCHANGED <<impl, dest, sent_final>>
        /\ IF impl.http_request_body_stream = JNULL
           THEN /\ result' = AWS_OP_ERR
                /\ raised_error' = NO_ERROR
                /\ out' = NullPtr
                /\ trace' = << >>
           ELSE IF acquire_failed(env_ok)
           THEN /\ result' = AWS_OP_ERR
                /\ raised_error' = NO_ERROR
                /\ out' = NullPtr
                /\ trace' = <<"acquire_failed">>
           ELSE /\ result' = IF throws THEN AWS_OP_ERR ELSE AWS_OP_SUCCESS
                /\ raised_error' = IF throws THEN AWS_ERROR_HTTP_CALLBACK_FAILURE ELSE NO_ERROR
                /\ out' = [length |-> length]
                /\ trace' = <<"acquire">>
                            \o CallLongMethod("get_length", throws)
                            \o aws_jni_check_and_clear_exception(throws)
                            \o aws_jni_release_thread_env
        /\ UNCHANGED <<message, marshalled_request, jni_body_stream, request, parsed_headers,
                       marshaling_buf, added>>

\* aws_input_stream_acquire: the engine takes one more reference
aws_input_stream_acquire ==
    /\ stream_in_use
    /\ impl.ref_count < MaxRefs
    /\ impl' = [impl EXCEPT !.ref_count = impl.ref_count + 1]
    /\ op' = "acquire_ref"
    /\ result' = AWS_OP_SUCCESS
    /\ raised_error' = NO_ERROR
    /\ trace' = << >>
    /\ UNCHANGED <<dest, out, sent_final, thread_env>>
    /\ UNCHANGED <<message, marshalled_request, jni_body_stream, request, parsed_headers,
                   marshaling_buf, added>>

\* aws_input_stream_release: a holder gives its reference up; the last one
\* to do so runs s_aws_input_stream_destroy
aws_input_stream_release ==
    \E env_ok \in BOOLEAN :
        /\ stream_in_use
        /\ impl' = [impl EXCEPT !.ref_count = impl.ref_count - 1]
        /\ op' = IF impl.ref_count = 1 THEN "destroy" ELSE "release_ref"
        /\ thread_env' = IF impl.ref_count = 1 THEN env_ok ELSE thread_env
        /\ trace' = aws_input_stream_release_events(impl, env_ok)
        /\ result' = AWS_OP_SUCCESS
        /\ raised_error' = NO_ERROR
        /\ UNCHANGED <<dest, out, sent_final>>
        /\ UNCHANGED <<message, marshalled_request, jni_body_stream, request, parsed_headers,
                       marshaling_buf, added>>

\* the engine hands an empty buffer to the next read
EngineTakesBytes ==
    /\ stream_in_use
    /\ dest.len > 0
    /\ dest' = [dest EXCEPT !.len = 0]
    /\ op' = "take"
    /\ UNCHANGED <<impl, out, trace, sent_final, thread_env, result, raised_error>>
    /\ UNCHANGED <<message, marshalled_request, jni_body_stream, request, parsed_headers,
                   marshaling_buf, added>>

\* a stream right after aws_input_stream_new_from_java_http_request_body_stream,
\* with or without a Java body
InitStream ==
    /\ \E body \in BodyStreamArgs :
           impl = aws_input_stream_new_from_java_http_request_body_stream(body, TRUE)
    /\ dest = [len |-> 0, capacity |-> DestCapacity]
    /\ out = NullPtr
    /\ trace = << >>
    /\ sent_final = FALSE
    /\ thread_env = TRUE
    /\ op = "new_stream"
    /\ result = AWS_OP_SUCCESS
    /\ raised_error = NO_ERROR
    /\ message = NullPtr
    /\ marshalled_request = << >>
    /\ jni_body_stream = JNULL
    /\ request = NoRequest
    /\ parsed_headers = NullPtr
    /\ marshaling_buf = << >>
    /\ added = 0

NextStream ==
    \/ s_aws_input_stream_seek
    \/ s_aws_input_stream_read
    \/ s_aws_input_stream_get_status
    \/ s_aws_input_stream_get_length
    \/ aws_input_stream_acquire
    \/ aws_input_stream_release
    \/ EngineTakesBytes

SpecStream == InitStream /\ [][NextStream]_vars

---------------------------------------------------------------------------
(* Properties of the codec and the builder.                                *)

\* the blob the last unmarshalling call was given holds a version field
HasVersion == Len(marshalled_request) >= WordSize

\* the bytes after the version field
AfterVersion == SubSeq(marshalled_request, WordSize + 1, Len(marshalled_request))

\* the version field of the blob is missing or is not version v
FrameVersionDiffers(v) == ~HasVersion \/ read_be32(marshalled_request) # v

\* read as a sequence of length-prefixed fields, the bytes hold a length
\* field that declares more bytes than follow it
RECURSIVE DeclaresTooMuch(_)
DeclaresTooMuch(bytes) ==
    IF Len(bytes) < WordSize
    THEN FALSE
    ELSE LET n == read_be32(bytes)
         IN  IF n > Len(bytes) - WordSize
             THEN TRUE
             ELSE DeclaresTooMuch(SubSeq(bytes, WordSize + n + 1, Len(bytes)))

\* the last call unmarshalled the blob that the last marshalling produced,
\* and was given no body stream
UnmarshalledTheMarshalled ==
    /\ op = "new"
    /\ jni_body_stream = JNULL
    /\ marshaling_buf # << >>
    /\ marshalled_request = marshaling_buf

\* C1: unmarshalling the blob that marshalling a request produced yields a
\* request with the same version, method, path and headers in the same order.
C1_RoundTrip ==
    UnmarshalledTheMarshalled =>
        /\ request # NoRequest
        /\ request.version = message.version
        /\ request.method = message.method
        /\ request.path = message.path
        /\ request.headers = message.headers

\* C2: a blob with a length field that declares more bytes than remain is
\* never unmarshalled successfully, neither as a request nor as a header
\* set: the call fails, with AWS_ERROR_INVALID_ARGUMENT.
C2_OverlongFieldRejected ==
    /\ (op \in {"new", "apply"} /\ HasVersion /\ DeclaresTooMuch(AfterVersion))
           => (result = AWS_OP_ERR /\ raised_error = AWS_ERROR_INVALID_ARGUMENT)
    /\ (op = "headers" /\ DeclaresTooMuch(marshalled_request))
           => (result = AWS_OP_ERR /\ parsed_headers = NullPtr
               /\ raised_error \in {AWS_ERROR_INVALID_ARGUMENT, AWS_ERROR_OOM})

\* the step is a call of aws_apply_java_http_request_changes_to_native_request that fails
ApplyFails == op' = "apply" /\ result' = AWS_OP_ERR

\* C3 as claimed: whenever applying a blob to an existing request fails, the
\* request ends with no headers and with the method and path it had.
C3_FailedApplyOnlyClears ==
    [][ApplyFails =>
           /\ message'.headers = << >>
           /\ message'.method = message.method
           /\ message'.path = message.path]_vars

\* C3 as amended: whenever applying a blob to an existing request fails,
\* none of its earlier headers is left: its headers are exactly the ones
\* added before the failure; its version and its body stream are unchanged;
\* its method and path are unchanged when the version of the blob does not
\* match or the request is an HTTP/2 request.
C3_FailedApplyKeepsNoOldHeader ==
    [][ApplyFails =>
           /\ Len(message'.headers) = added'
           /\ message'.version = message.version
           /\ message'.body_stream = message.body_stream
           /\ (FrameVersionDiffers(message.version) \/ message.version = AWS_HTTP_VERSION_2)
                 => (message'.method = message.method /\ message'.path = message.path)]_vars

\* a failed apply that had already set the method and added a header
C3_Witness ==
    /\ op = "apply"
    /\ result = AWS_OP_ERR
    /\ added > 0
    /\ Len(message.headers) = added
    /\ message.method # <<77>>

\* C4: applying a blob whose version field is missing or is not the
\* version of the existing request fails, and leaves the request with no
\* headers and with its version, method, path and body stream unchanged.
C4_VersionMismatchRejected ==
    [][(op' = "apply" /\ FrameVersionDiffers(message.version)) =>
           /\ result' = AWS_OP_ERR
           /\ raised_error' = AWS_ERROR_INVALID_ARGUMENT
           /\ message'.headers = << >>
           /\ message'.version = message.version
           /\ message'.method = message.method
           /\ message'.path = message.path
           /\ message'.body_stream = message.body_stream]_vars

\* an apply, given a body stream, that failed on a blob of another version
\* than the request's, which kept its body stream
C4_Witness ==
    /\ op = "apply"
    /\ result = AWS_OP_ERR
    /\ HasVersion
    /\ FrameVersionDiffers(message.version)
    /\ jni_body_stream # JNULL
    /\ message.headers = << >>
    /\ message.method = <<77>>
    /\ message.body_stream = OldStream

\* the first length field after the version is there and is zero, and so
\* is the one right after it
EmptyMethodAndPath ==
    /\ Len(AfterVersion) >= 2 * WordSize
    /\ read_be32(AfterVersion) = 0
    /\ read_be32(after_be32(AfterVersion)) = 0

\* C5: the blob marshalled from an HTTP/2 request has a zero method length
\* and a zero path length, whatever method and path the request reports.
C5_Http2MarshalsEmptyMethodAndPath ==
    (op = "marshal" /\ result = AWS_OP_SUCCESS /\ message.version = AWS_HTTP_VERSION_2) =>
        /\ Len(marshaling_buf) >= 3 * WordSize
        /\ SubSeq(marshaling_buf, WordSize + 1, 3 * WordSize) = write_be32(0) \o write_be32(0)

\* C6: unmarshalling an HTTP/2 blob whose method length or path length is
\* non-zero or missing fails with AWS_ERROR_INVALID_ARGUMENT, and no header
\* has been added.
C6_Http2NonEmptyMethodRejected ==
    (/\ op \in {"new", "apply"}
     /\ HasVersion
     /\ read_be32(marshalled_request) = AWS_HTTP_VERSION_2
     /\ ~EmptyMethodAndPath) =>
        /\ result = AWS_OP_ERR
        /\ raised_error = AWS_ERROR_INVALID_ARGUMENT
        /\ added = 0
        /\ op = "new" => request = NoRequest
        /\ op = "apply" => message.headers = << >>

\* an HTTP/2 blob with a zero method length and a non-zero path length was
\* applied to an HTTP/2 request and rejected
C6_Witness ==
    /\ op = "apply"
    /\ message.version = AWS_HTTP_VERSION_2
    /\ HasVersion
    /\ read_be32(marshalled_request) = AWS_HTTP_VERSION_2
    /\ Len(AfterVersion) >= 2 * WordSize
    /\ read_be32(AfterVersion) = 0
    /\ read_be32(after_be32(AfterVersion)) # 0
    /\ result = AWS_OP_ERR
    /\ message.headers = << >>

---------------------------------------------------------------------------
(* Properties of the body stream.                                          *)

\* the stream has a Java body
HasProducer == impl.http_request_body_stream # JNULL

\* the last seek asked for something else than the start of the stream
SeekElsewhere(args) == args.basis # AWS_SSB_BEGIN \/ args.offset # 0

\* C7: on a stream with a Java body, once send_outgoing_body has returned
\* true and until a seek succeeds, every read succeeds, appends nothing and
\* calls nothing; and body_done goes from true to false by a successful
\* seek only.
C7_DoneReadsAreNoOps ==
    [][/\ (HasProducer /\ sent_final /\ op' = "read") =>
              /\ result' = AWS_OP_SUCCESS
              /\ dest'.len = dest.len
              /\ trace' = << >>
              /\ impl'.body_done
       /\ (impl.body_done /\ ~impl'.body_done) =>
              (op' = "seek" /\ result' = AWS_OP_SUCCESS)]_vars

\* a read that did nothing, after send_outgoing_body had returned true
C7_Witness ==
    /\ HasProducer
    /\ sent_final
    /\ op = "read"
    /\ result = AWS_OP_SUCCESS
    /\ trace = << >>
    /\ impl.body_done

\* C8: a stream without a Java body is at its end right after it is made;
\* every read of it succeeds, appends nothing, leaves it at its end and
\* acquires no JNI environment; a seek to the start succeeds and leaves it
\* not at its end.
C8_NoBodyStream ==
    [][~HasProducer =>
           /\ op = "new_stream" => impl.body_done
           /\ op' = "get_status" => out'.is_end_of_stream = impl.body_done
           /\ op' = "read" =>
                  /\ result' = AWS_OP_SUCCESS
                  /\ dest' = dest
                  /\ impl'.body_done
                  /\ trace' = << >>
           /\ (op' = "seek" /\ ~SeekElsewhere(out')) =>
                  /\ result' = AWS_OP_SUCCESS
                  /\ ~impl'.body_done]_vars

\* a stream without a Java body after a seek to the start that succeeded
C8_Witness ==
    /\ ~HasProducer
    /\ op = "seek"
    /\ ~SeekElsewhere(out)
    /\ result = AWS_OP_SUCCESS
    /\ ~impl.body_done

\* C9 as claimed: a seek with another basis than the start, or with a
\* non-zero offset, fails, calls nothing and leaves body_done as it was, on
\* every stream.
C9_OtherSeeksFail ==
    [][(op' = "seek" /\ SeekElsewhere(out')) =>
           /\ result' = AWS_OP_ERR
           /\ trace' = << >>
           /\ impl'.body_done = impl.body_done]_vars

\* C9 as amended: on a stream with a Java body, a seek with another basis
\* than the start, or with a non-zero offset, fails, calls nothing and
\* leaves body_done as it was; on a stream without a Java body it succeeds,
\* calls nothing and sets body_done to false.
C9_OtherSeeksFailWithProducer ==
    [][(op' = "seek" /\ SeekElsewhere(out')) =>
           /\ trace' = << >>
           /\ HasProducer => (result' = AWS_OP_ERR /\ impl'.body_done = impl.body_done)
           /\ ~HasProducer => (result' = AWS_OP_SUCCESS /\ ~impl'.body_done)]_vars

\* a seek from the start with a non-zero offset that failed on a stream
\* with a Java body whose body is done
C9_Witness ==
    /\ HasProducer
    /\ op = "seek"
    /\ out.basis = AWS_SSB_BEGIN
    /\ out.offset # 0
    /\ result = AWS_OP_ERR
    /\ impl.body_done

\* is_valid is true of every stream the code makes, and nothing clears it
ValidNeverCleared == impl # NullPtr => impl.is_valid

---------------------------------------------------------------------------
(* Properties of the JNI environment, of exceptions and of destruction.    *)

\* how many times event e is in the events t
Count(t, e) == Cardinality({i \in 1 .. Len(t) : t[i] = e})

\* the methods of the Java body stream
ProducerCallbacks == {"reset_position", "send_outgoing_body", "get_length"}

\* how many envs are held after the first n of the events t
Held(t, n) == Count(SubSeq(t, 1, n), "acquire") - Count(SubSeq(t, 1, n), "release")

\* C11: in a read, a seek, a get_length and the destruction of a stream,
\* every env that is acquired is released exactly once before the operation
\* returns, whether the Java method succeeds, returns failure or throws; at
\* most one method of the Java body stream is called per acquired env, and
\* none is called without one.
C11_EnvBracketsOneCallback ==
    op \in {"read", "seek", "get_length", "destroy"} =>
        /\ \A n \in 0 .. Len(trace) : Held(trace, n) \in {0, 1}
        /\ Held(trace, Len(trace)) = 0
        /\ \A i \in 1 .. Len(trace) :
               trace[i] \in ProducerCallbacks =>
                   /\ Held(trace, i) = 1
                   /\ \A j \in (i + 1) .. Len(trace) :
                          trace[j] \in ProducerCallbacks =>
                              \E k \in (i + 1) .. (j - 1) : trace[k] = "release"

\* a read whose send_outgoing_body threw, between an acquire and a release
C11_Witness ==
    /\ op = "read"
    /\ trace = <<"acquire", "send_outgoing_body", "exception", "exception_cleared", "release">>

\* the events hold a call of a method of the Java body stream
CallsProducer(t) == \E i \in 1 .. Len(t) : t[i] \in ProducerCallbacks

\* the step is an operation that needs an env, on a stream with a Java
\* body: a read, a seek to the start, or a get_length
NeedsEnvAsClaimed ==
    /\ HasProducer
    /\ \/ op' \in {"read", "get_length"}
       \/ op' = "seek" /\ ~SeekElsewhere(out')

\* the step fails, calls no method of the Java body stream and leaves the
\* stream and the destination buffer as they were
FailsWithoutTrace ==
    /\ result' = AWS_OP_ERR
    /\ ~CallsProducer(trace')
    /\ impl' = impl
    /\ dest' = dest
    /\ sent_final' = sent_final

\* C12 as claimed: when there is no env to be had, a read, a seek to the
\* start and a get_length of a stream with a Java body each fail, call no
\* method of the Java body stream and leave body_done, is_valid and the
\* destination buffer as they were, so that a later call finds the stream as
\* if the failed call had not been made.
C12_NoEnvAlwaysFails ==
    [][(NeedsEnvAsClaimed /\ ~thread_env') => FailsWithoutTrace]_vars

\* C12 as amended: the same of a get_length, of a seek to the start, and of
\* a read of a stream whose body is not done; a read of a stream whose body
\* is done asks for no env and succeeds, leaving the stream and the
\* destination buffer as they were.
C12_NoEnvFailsWhenEnvIsNeeded ==
    [][(NeedsEnvAsClaimed /\ ~thread_env') =>
           IF op' = "read" /\ impl.body_done
           THEN /\ result' = AWS_OP_SUCCESS
                /\ trace' = << >>
                /\ impl' = impl
                /\ dest' = dest
                /\ sent_final' = sent_final
           ELSE /\ FailsWithoutTrace
                /\ trace' = <<"acquire_failed">>]_vars

\* a read of a stream with a Java body, with bytes in the buffer, that
\* failed for want of an env
C12_Witness ==
    /\ HasProducer
    /\ op = "read"
    /\ ~thread_env
    /\ result = AWS_OP_ERR
    /\ trace = <<"acquire_failed">>
    /\ ~impl.body_done
    /\ dest.len > 0

\* a method of the Java body stream threw
Thrown(t) == \E i \in 1 .. Len(t) : t[i] = "exception"

\* an exception is pending after the events t
ExceptionPending(t) ==
    \E i \in 1 .. Len(t) :
        /\ t[i] = "exception"
        /\ \A j \in (i + 1) .. Len(t) : t[j] # "exception_cleared"

\* C13: when the method of the Java body stream throws in a read, a seek or
\* a get_length, the operation fails with AWS_ERROR_HTTP_CALLBACK_FAILURE,
\* the exception is cleared before the env is released, is_valid stays
\* true, and a read leaves the length of the destination buffer as it was;
\* no operation of the stream leaves an exception pending.
C13_ExceptionClearedAndReported ==
    [][/\ ~ExceptionPending(trace')
       /\ (op' \in {"read", "seek", "get_length"} /\ Thrown(trace')) =>
              /\ result' = AWS_OP_ERR
              /\ raised_error' = AWS_ERROR_HTTP_CALLBACK_FAILURE
              /\ \E i \in 1 .. Len(trace') :
                     /\ trace'[i] = "exception_cleared"
                     /\ \E j \in (i + 1) .. Len(trace') : trace'[j] = "release"
              /\ impl'.is_valid
              /\ op' = "read" => dest'.len = dest.len]_vars

\* a read into a buffer that holds bytes, whose send_outgoing_body threw
C13_Witness ==
    /\ op = "read"
    /\ Thrown(trace)
    /\ result = AWS_OP_ERR
    /\ raised_error = AWS_ERROR_HTTP_CALLBACK_FAILURE
    /\ dest.len > 0
    /\ dest.len < dest.capacity

\* the step is a seek to the start of a stream with a Java body
SeekToStart == HasProducer /\ op' = "seek" /\ ~SeekElsewhere(out')

\* the seek of the step called reset_position once; it failed with
\* AWS_ERROR_HTTP_CALLBACK_FAILURE and left body_done as it was when
\* reset_position returned false or threw; it succeeded and set body_done
\* to false when reset_position returned true
ResetPositionDecides ==
    /\ Count(trace', "reset_position") = 1
    /\ (Thrown(trace') \/ Count(trace', "returned_false") = 1) =>
           /\ result' = AWS_OP_ERR
           /\ raised_error' = AWS_ERROR_HTTP_CALLBACK_FAILURE
           /\ impl'.body_done = impl.body_done
    /\ Count(trace', "returned_true") = 1 =>
           /\ result' = AWS_OP_SUCCESS
           /\ ~impl'.body_done

\* the step is a read of a stream with a Java body whose body is not done,
\* as it is after a seek that succeeded
ReadOfUndone == HasProducer /\ ~impl.body_done /\ op' = "read"

\* C17 as claimed: a seek to the start of a stream with a Java body calls
\* reset_position exactly once; when that returns false or throws, the seek
\* fails with AWS_ERROR_HTTP_CALLBACK_FAILURE and body_done is as it was;
\* when it returns true, the seek succeeds and body_done is false, and the
\* next read calls send_outgoing_body.
C17_SeekCallsResetOnce ==
    [][/\ SeekToStart => ResetPositionDecides
       /\ ReadOfUndone => Count(trace', "send_outgoing_body") = 1]_vars

\* C17 as amended: the same whenever the operation gets an env; a seek to
\* the start that gets none calls nothing, fails and leaves body_done as it
\* was, and a read that gets none calls nothing.
C17_SeekCallsResetOnceGivenEnv ==
    [][/\ (SeekToStart /\ thread_env') => ResetPositionDecides
       /\ (SeekToStart /\ ~thread_env') =>
              /\ ~CallsProducer(trace')
              /\ result' = AWS_OP_ERR
              /\ impl'.body_done = impl.body_done
       /\ (ReadOfUndone /\ thread_env') => Count(trace', "send_outgoing_body") = 1
       /\ (ReadOfUndone /\ ~thread_env') => ~CallsProducer(trace')]_vars

\* a seek to the start of a stream whose body is done, which failed because
\* reset_position returned false
C17_Witness ==
    /\ HasProducer
    /\ op = "seek"
    /\ ~SeekElsewhere(out)
    /\ trace = <<"acquire", "reset_position", "returned_false", "release">>
    /\ result = AWS_OP_ERR
    /\ impl.body_done

\* C18: s_aws_input_stream_destroy runs once, when the last reference to
\* the stream is released; with an env it deletes the global reference to
\* the Java body (if there is one), releases the env and releases the
\* memory of the stream; without an env it deletes no global reference and
\* still releases the memory of the stream.
C18_DestroyReclaimsStream ==
    [][op' = "destroy" =>
           /\ impl.ref_count = 1
           /\ impl'.ref_count = 0
           /\ thread_env' =>
                  trace' = <<"acquire">>
                           \o (IF HasProducer THEN <<"delete_global_ref">> ELSE << >>)
                           \o <<"release", "mem_release">>
           /\ ~thread_env' =>
                  /\ Count(trace', "delete_global_ref") = 0
                  /\ Count(trace', "mem_release") = 1]_vars

---------------------------------------------------------------------------
(* Properties of the lifetime of body streams and requests.                *)

\* the body stream of the request the step built or changed
AttachedStream == IF op' = "new" THEN request'.body_stream ELSE message'.body_stream

\* the body stream the step made a request give up
ReleasedStream ==
    CASE op' = "apply" -> message.body_stream
      [] op' = "message_destroy" -> request.body_stream
      [] OTHER -> NullPtr

\* the step attached a body stream for the Java body it was given
AttachesStream ==
    /\ op' \in {"new", "apply"}
    /\ result' = AWS_OP_SUCCESS
    /\ jni_body_stream' # JNULL
    /\ AttachedStream # NullPtr

\* C14: once the builder has attached a body stream, the request holds the
\* only reference to it (ref_count 1) and the stream holds one global
\* reference to the Java body it was made for; a global reference is
\* deleted only by the release of the last reference to its stream, and at
\* most once.
C14_RequestOwnsStream ==
    [][/\ AttachesStream =>
              /\ AttachedStream.ref_count = 1
              /\ AttachedStream.http_request_body_stream = jni_body_stream'
              /\ Count(trace', "new_global_ref") = 1
       /\ Count(trace', "new_global_ref") <= 1
       /\ Count(trace', "delete_global_ref") <= 1
       /\ Count(trace', "delete_global_ref") = 1 =>
              /\ ReleasedStream # NullPtr
              /\ ReleasedStream.ref_count = 1
              /\ ReleasedStream.http_request_body_stream # JNULL]_vars

\* changes were applied with a Java body to a request that owned a body
\* stream: the new stream is attached and the old one was destroyed
C14_Witness ==
    /\ op = "apply"
    /\ result = AWS_OP_SUCCESS
    /\ message.body_stream # NullPtr
    /\ message.body_stream.http_request_body_stream = "java_body"
    /\ message.body_stream.ref_count = 1
    /\ trace = <<"mem_calloc", "new_global_ref",
                 "acquire", "delete_global_ref", "release", "mem_release">>

\* C16: aws_http_request_new_from_java_http_request returns no request
\* when unmarshalling fails and when the body stream cannot be made; the
\* request it had made is then destroyed exactly once, and neither a body
\* stream nor a global reference to the Java body is left behind; a request
\* that is returned was not destroyed.
C16_NoPartialRequest ==
    op = "new" =>
        /\ Count(trace, "message_new") = 1
        /\ (raised_error # NO_ERROR \/ Count(trace, "new_global_ref_failed") = 1) =>
               request = NoRequest
        /\ request = NoRequest =>
               /\ Count(trace, "message_destroy") = 1
               /\ Count(trace, "mem_calloc") = Count(trace, "mem_release")
               /\ Count(trace, "new_global_ref") = Count(trace, "delete_global_ref")
        /\ request # NoRequest => Count(trace, "message_destroy") = 0

\* C19: aws_apply_java_http_request_changes_to_native_request attaches the
\* body stream as aws_http_request_new_from_java_http_request does: when it
\* succeeds and was given a Java body, the request has a body stream for
\* that Java body; when the body stream cannot be made, it fails and the
\* request keeps the body stream it had; when it was given no Java body,
\* the request keeps the body stream it had.
C19_ApplyAttachesLikeNew ==
    [][op' = "apply" =>
           /\ (result' = AWS_OP_SUCCESS /\ jni_body_stream' # JNULL) =>
                  /\ message'.body_stream # NullPtr
                  /\ message'.body_stream.http_request_body_stream = jni_body_stream'
           /\ Count(trace', "new_global_ref_failed") = 1 =>
                  /\ result' = AWS_OP_ERR
                  /\ message'.body_stream = message.body_stream
           /\ jni_body_stream' = JNULL => message'.body_stream = message.body_stream]_vars

---------------------------------------------------------------------------
(* Properties of the versions and of the header loop.                      *)

\* the bytes read as a sequence of length-prefixed fields: the fields, and
\* whether the bytes are such a sequence, with no byte left over
RECURSIVE ParseFields(_, _)
ParseFields(bytes, fields) ==
    IF bytes = << >>
    THEN [ok |-> TRUE, fields |-> fields]
    ELSE IF Len(bytes) < WordSize
    THEN [ok |-> FALSE, fields |-> fields]
    ELSE LET n == read_be32(bytes)
         IN  IF n > Len(bytes) - WordSize
             THEN [ok |-> FALSE, fields |-> fields]
             ELSE ParseFields(SubSeq(bytes, WordSize + n + 1, Len(bytes)),
                              Append(fields, SubSeq(bytes, WordSize + 1, WordSize + n)))

\* the fields from the i-th on, two by two, as headers
RECURSIVE HeadersOf(_, _)
HeadersOf(fields, i) ==
    IF i + 1 > Len(fields)
    THEN << >>
    ELSE <<Header(fields[i], fields[i + 1])>> \o HeadersOf(fields, i + 2)

\* the versions of enum aws_http_version that name a protocol
ProtocolVersions == {AWS_HTTP_VERSION_1_0, AWS_HTTP_VERSION_1_1, AWS_HTTP_VERSION_2}

\* the blob is a well-formed frame of a protocol version: a version, a
\* method, a path (both empty for HTTP/2) and whole headers
WellFormedFrame ==
    /\ HasVersion
    /\ read_be32(marshalled_request) \in ProtocolVersions
    /\ LET p == ParseFields(AfterVersion, << >>)
       IN  /\ p.ok
           /\ Len(p.fields) >= 2
           /\ Len(p.fields) % 2 = 0
           /\ read_be32(marshalled_request) = AWS_HTTP_VERSION_2 =>
                  (p.fields[1] = << >> /\ p.fields[2] = << >>)

\* C15: aws_http_request_new_from_java_http_request returns, for a
\* well-formed frame of HTTP/1.0, HTTP/1.1 or HTTP/2 (and a body stream that
\* can be made), a request of the version of the frame with the method, the
\* path and the headers of the frame; a request it returns never has another
\* version than the frame.
C15_BuildsEveryVersion ==
    op = "new" =>
        /\ request # NoRequest =>
               (HasVersion /\ request.version = read_be32(marshalled_request))
        /\ (WellFormedFrame /\ Count(trace, "new_global_ref_failed") = 0) =>
               LET fields == ParseFields(AfterVersion, << >>).fields
               IN  /\ request # NoRequest
                   /\ request.version = read_be32(marshalled_request)
                   /\ request.method = fields[1]
                   /\ request.path = fields[2]
                   /\ request.headers = HeadersOf(fields, 3)

\* the bytes after one length-prefixed field
SkipField(bytes) == SubSeq(bytes, WordSize + read_be32(bytes) + 1, Len(bytes))

\* the headers marshalled
MarshalledHeaders(headers) == marshal_headers_from(<< >>, headers, 1)

\* C20: the header loop ends on every blob: an iteration fails with
\* AWS_ERROR_INVALID_ARGUMENT or takes at least the two length fields from
\* the cursor, so that a blob of n bytes gives at most n/8 headers; each is
\* added in the order of the blob, and none is merged with another.
C20_HeaderLoopTerminates ==
    /\ (op = "headers" /\ raised_error # AWS_ERROR_OOM) =>
           /\ 2 * WordSize * added <= Len(marshalled_request)
           /\ result = AWS_OP_ERR => raised_error = AWS_ERROR_INVALID_ARGUMENT
           /\ result = AWS_OP_SUCCESS =>
                  /\ Len(parsed_headers.headers) = added
                  /\ ~DeclaresTooMuch(marshalled_request) =>
                         MarshalledHeaders(parsed_headers.headers) = marshalled_request
    /\ op \in {"new", "apply"} =>
           /\ added > 0 => 2 * WordSize * added <= Len(AfterVersion) - 2 * WordSize
           /\ result = AWS_OP_ERR =>
                  raised_error \in {AWS_ERROR_INVALID_ARGUMENT, NO_ERROR}
    /\ op = "apply" =>
           /\ Len(message.headers) = added
           /\ (result = AWS_OP_SUCCESS /\ ~DeclaresTooMuch(AfterVersion)) =>
                  MarshalledHeaders(message.headers) = SkipField(SkipField(AfterVersion))

\* a header blob of 16 bytes gave two headers, which are the same header
C20_Witness ==
    /\ op = "headers"
    /\ result = AWS_OP_SUCCESS
    /\ Len(marshalled_request) = 4 * WordSize
    /\ added = 2
    /\ parsed_headers.headers[1] = parsed_headers.headers[2]

\* the step is a read that calls send_outgoing_body
ReadCallsProducer == op' = "read" /\ Count(trace', "send_outgoing_body") = 1

\* the step is a read that calls nothing
ReadCallsNothing == op' = "read" /\ ~CallsProducer(trace')

\* C21: over the reads into a destination buffer its length never goes
\* down and never passes its capacity; a read that calls send_outgoing_body
\* offers it capacity minus length bytes and, when it succeeds, adds to the
\* length the position the Java side left, which is at most what was
\* offered; a read that fails, and a read that calls nothing, add nothing.
C21_ReadFillsDest ==
    [][/\ dest'.len <= dest'.capacity
       /\ op' = "read" =>
              /\ dest'.len >= dest.len
              /\ dest'.capacity = dest.capacity
              /\ result' = AWS_OP_ERR => dest'.len = dest.len
       /\ ReadCallsProducer =>
              /\ out'.out_remaining = dest.capacity - dest.len
              /\ out'.position <= out'.out_remaining
              /\ result' = AWS_OP_SUCCESS => dest'.len = dest.len + out'.position
       /\ ReadCallsNothing => dest'.len = dest.len]_vars

\* a second read that succeeded and filled the destination buffer to its
\* capacity
C21_Witness ==
    /\ op = "read"
    /\ result = AWS_OP_SUCCESS
    /\ Count(trace, "send_outgoing_body") = 1
    /\ out.position > 0
    /\ dest.len > out.position
    /\ dest.len = dest.capacity

=============================================================================
